---- MODULE Spec2Model ----
(***************************************************************************)
(* A model of the Playwright boilerplate: the global authentication setup, *)
(* the serial authentication test group that shares one auth.json across   *)
(* projects, the storage-state save/load round trip, and the page-event    *)
(* and iframe tests that drive one page with Promise.all.                   *)
(*                                                                         *)
(* The automation library itself is not part of the repository.  Each of   *)
(* its awaited calls is modelled as a step that either resolves or         *)
(* rejects; storageState({path}) is modelled as the library performs it:   *)
(* capture the state, open the final path for writing (which creates or    *)
(* truncates it), then write the serialized text at offset 0.              *)
(***************************************************************************)
EXTENDS Integers, Sequences, FiniteSets, Bags, TLC

VARIABLES
  \* ---- global-setup.js (src/unnamed/part_004)
  gpc,          \* position of globalSetup
  gDir,         \* auth directory exists
  gFile,        \* auth/auth.json as globalSetup sees it
  gBrowsers,    \* browser processes launched by globalSetup and still running
  gJar,         \* cookie jar of the setup context
  gSnap,        \* state captured by storageState, about to be written
  gErr,         \* error caught inside the try block, to be rethrown
  gThrown,      \* error that reached the caller of the last invocation
  gRuns,        \* number of invocations started
  gCloseCalls,  \* browser.close() calls made by the current invocation
  gLogins,      \* completed login sequences over all invocations
  gTry,         \* the current invocation entered its try block
  \* ---- one context saving and loading its state (BasePage, part_003)
  sFile,        \* the state file
  sJar,         \* cookie sequence of the live context
  sLoaded,      \* what the last load read and parsed
  sOutcome,     \* outcome of the test body that did the last load
  sLast,        \* the last operation performed
  sSaved,       \* state written by the last successful save
  sPrev,        \* state written by the successful save before that one
  sSaves,       \* successful saves so far, counted up to 2
  sIntact,      \* a save succeeded and no save has failed since
  \* ---- the serial authentication group, once per project (part_003)
  aCI,          \* process.env.CI is set
  aFile,        \* auth/auth.json, shared by all projects
  aPc,          \* per project: position in the group
  aOut,         \* per project: outcome of tests 01..04 in the current attempt
  aTry,         \* per project: retries used
  aCap,         \* per project: state that storageState captured and is writing
  aSaved,       \* per project: test 01 completed its save in this attempt
  aWorkers,     \* projects that hold a worker
  aLastRead,    \* the most recent read of the auth file: by whom, and the text
  aSeed,        \* per project: test 03's authData and what it has installed
  aWriter,      \* the project whose save wrote the auth file last (0: none)
  \* ---- one worker driving a page (InternetPage, iframe and multi-tab tests)
  pTest,        \* the body that is running ("none" between tests)
  pPhase,       \* "body": executing; "ended": body left, fixtures not yet torn down
  pIp,          \* index of the current statement of the body
  pOps,         \* per operation: "idle", "flying", "ok" (resolved), "err" (rejected)
  pSubAt,       \* per page-event wait: pages opened when it subscribed (0: never)
  pSubVal,      \* per page-event wait: the page it resolved with (0: none)
  pOpened,      \* pages opened in the context, in order
  pPopupDue,    \* the click on the target=_blank link is under way
  pNewPage,     \* the page the Promise.all handed to the body (0: none)
  pOut,         \* outcome of the body
  pRuns,        \* bodies started so far
  pUrl,         \* URL of the fixture page: "blank", "home" or "windows"
  pCount,       \* elements that locator(productName).all() finds on the page
  pErr,         \* an error thrown in a try block is pending while its finally runs
  pPage2,       \* the page of context.newPage(): "none", "open" or "closed"
  pLate,        \* a close() was issued on a page that was already closed
  pClosed,      \* pages of the context that have been closed
  \* ---- the runner: tests fanned out over the projects, run by workers
  rTargets,     \* the projects of this invocation, in declaration order
  rNextTest,    \* index of the next test to expand
  rRuns,        \* the concrete runs, in queue order, each with its state
  rNextCtx,     \* contexts created so far
  rOpen,        \* contexts that are open
  rPageVar,     \* per worker process: the describe-level variable "page"
  rReport,      \* bag of results reported so far
  rCancelled,   \* the suite has been cancelled
  rPhase,       \* "idle", "expanding", "running" or "finalized"
  rTests,       \* the tests of this invocation, in declaration order
  rEngine,      \* per worker: the project whose browser the worker keeps running
  rIpVar,       \* per worker process: the page of the variable "internetPage"
  \* ---- LoginPage.loginAndSaveState (src/unnamed/part_000)
  lPc,          \* position of the call
  lDone,        \* the login steps that have resolved, in order
  lFile,        \* the file at statePath
  lJar,         \* cookie sequence of the context
  lErr          \* the error the call rejected with

setupVars == <<gpc, gDir, gFile, gBrowsers, gJar, gSnap, gErr, gThrown, gRuns,
               gCloseCalls, gLogins, gTry>>

storeVars == <<sFile, sJar, sLoaded, sOutcome, sLast, sSaved, sPrev, sSaves,
               sIntact>>

authVars == <<aCI, aFile, aPc, aOut, aTry, aCap, aSaved, aWorkers, aLastRead,
              aSeed, aWriter>>

pageVars == <<pTest, pPhase, pIp, pOps, pSubAt, pSubVal, pOpened, pPopupDue,
              pNewPage, pOut, pRuns, pUrl, pCount, pErr, pPage2, pLate,
              pClosed>>

runnerVars == <<rTargets, rNextTest, rRuns, rNextCtx, rOpen, rPageVar, rReport,
                rCancelled, rPhase, rTests, rEngine, rIpVar>>

loginVars == <<lPc, lDone, lFile, lJar, lErr>>

vars == <<setupVars, storeVars, authVars, pageVars, runnerVars, loginVars>>

\* What the operations of one part leave alone.
SetupOnly == UNCHANGED <<storeVars, authVars, pageVars, runnerVars, loginVars>>
StoreOnly == UNCHANGED <<setupVars, authVars, pageVars, runnerVars, loginVars>>
AuthOnly == UNCHANGED <<setupVars, storeVars, pageVars, runnerVars, loginVars>>
PageOnly == UNCHANGED <<setupVars, storeVars, authVars, runnerVars, loginVars>>
RunnerOnly == UNCHANGED <<setupVars, storeVars, authVars, pageVars, loginVars>>
LoginOnly == UNCHANGED <<setupVars, storeVars, authVars, pageVars, runnerVars>>

----------------------------------------------------------------------------
(* Bounds *)

MaxCookies == 2        \* longest cookie sequence of a session state
MaxInvocations == 2    \* invocations of globalSetup in one behaviour
NumProjects == 2       \* projects that run the authentication group
DefaultWorkers == 2    \* workers when the configuration leaves them undefined
MaxBodies == 2         \* test bodies one worker runs in one behaviour
MaxProducts == 2       \* most products the inventory page lists
MaxTargets == 3        \* declared projects that take part in the fan-out

----------------------------------------------------------------------------
(* Session state and its JSON text                                         *)

\* Cookies a login on the demo site may leave in the context.
Cookies == {"session-username", "tracking"}

RECURSIVE NoDup(_)
NoDup(s) ==
  IF Len(s) <= 1 THEN TRUE
  ELSE /\ \A i \in 2..Len(s) : s[i] # s[1]
       /\ NoDup(Tail(s))

\* A session state: the ordered cookie sequence of a context (unique cookies).
States ==
  { s \in UNION { [1..n -> Cookies] : n \in 0..MaxCookies } : NoDup(s) }

\* A file: absent, or present with its text (a sequence of JSON tokens).
Absent == [exists |-> FALSE, data |-> <<>>]
FileOf(toks) == [exists |-> TRUE, data |-> toks]

\* JSON.stringify of a storage state: an opening token, one token per cookie
\* in order, a closing token.  (SerializeDropLast is the fault "the last
\* cookie is lost", used to test the round trip.)
SerializeDropLast(s) ==
  <<"[">> \o (IF Len(s) = 0 THEN s ELSE SubSeq(s, 1, Len(s) - 1)) \o <<"]">>
Serialize(s) == <<"[">> \o s \o <<"]">>

\* fs open with flag 'w': the file is created, or truncated to length zero.
\* (OpenKeep is the fault "opened without truncation".)
OpenKeep(f) == IF f.exists THEN f ELSE FileOf(<<>>)
OpenTruncate(f) == FileOf(<<>>)

\* A write of toks at offset 0 of an open file: bytes beyond the written
\* range keep their previous content.
WriteAt0(f, toks) ==
  FileOf(toks \o (IF Len(f.data) > Len(toks)
                    THEN SubSeq(f.data, Len(toks) + 1, Len(f.data))
                    ELSE <<>>))

\* JSON.parse(fs.readFileSync(path)): ENOENT for a missing file, SyntaxError
\* for text that is not one complete document, the cookie sequence otherwise.
NoRead == [kind |-> "none", cookies |-> <<>>]
Middle(d) == SubSeq(d, 2, Len(d) - 1)
WellFormed(d) ==
  /\ Len(d) >= 2
  /\ d[1] = "["
  /\ d[Len(d)] = "]"
  /\ \A i \in 2..(Len(d) - 1) : d[i] \in Cookies
ReadParse(f) ==
  IF ~f.exists THEN [kind |-> "ENOENT", cookies |-> <<>>]
  ELSE IF WellFormed(f.data) THEN [kind |-> "state", cookies |-> Middle(f.data)]
  ELSE [kind |-> "SyntaxError", cookies |-> <<>>]

----------------------------------------------------------------------------
(* globalSetup (src/unnamed/part_004)                                      *)

NoError == "none"

\* The awaited calls of the try block, in program order, and the error each
\* rejects with.
BodyOrder == <<"goto", "fillUser", "fillPass", "click", "waitSel">>
BodyError(pos) ==
  CASE pos = "goto"     -> "NavigationError"
    [] pos = "fillUser" -> "FillError"
    [] pos = "fillPass" -> "FillError"
    [] pos = "click"    -> "ClickError"
    [] pos = "waitSel"  -> "TimeoutError"
    [] OTHER            -> "Error"
IndexOf(pos) == CHOOSE i \in 1..Len(BodyOrder) : BodyOrder[i] = pos
AfterBody(pos) ==
  IF IndexOf(pos) < Len(BodyOrder) THEN BodyOrder[IndexOf(pos) + 1]
  ELSE "storageState"

SetupIdle ==
  /\ gpc = "idle"
  /\ gBrowsers = 0
  /\ gJar = <<>>
  /\ gSnap = <<>>
  /\ gErr = NoError
  /\ gThrown = NoError
  /\ gRuns = 0
  /\ gCloseCalls = 0
  /\ gLogins = 0
  /\ gTry = FALSE

\* A fresh checkout has no auth directory; an earlier run may have left the
\* directory and any file in it.
SetupStart ==
  /\ SetupIdle
  /\ gDir \in BOOLEAN
  /\ gFile \in {Absent} \cup
               (IF gDir THEN {FileOf(<<>>)} \cup { FileOf(Serialize(s)) : s \in States }
                ELSE {})

\* lines 30-45: mkdir, then the "already exists" shortcut.
\* (GStartAlwaysLogsIn is the fault "the existsSync shortcut is missing".)
GStartAlwaysLogsIn ==
  /\ gpc = "idle"
  /\ gRuns < MaxInvocations
  /\ gRuns' = gRuns + 1
  /\ gDir' = TRUE
  /\ gCloseCalls' = 0
  /\ gTry' = FALSE
  /\ gErr' = NoError
  /\ gThrown' = NoError
  /\ gpc' = "launch"
  /\ UNCHANGED <<gFile, gBrowsers, gJar, gSnap, gLogins>>
  /\ SetupOnly
GStart ==
  /\ gpc = "idle"
  /\ gRuns < MaxInvocations
  /\ gRuns' = gRuns + 1
  /\ gDir' = TRUE
  /\ gCloseCalls' = 0
  /\ gTry' = FALSE
  /\ gErr' = NoError
  /\ gThrown' = NoError
  /\ gpc' = IF gFile.exists THEN "returned" ELSE "launch"
  /\ UNCHANGED <<gFile, gBrowsers, gJar, gSnap, gLogins>>
  /\ SetupOnly

\* line 48: chromium.launch()
GLaunch ==
  /\ gpc = "launch"
  /\ \/ /\ gBrowsers' = gBrowsers + 1
        /\ gpc' = "createContext"
        /\ UNCHANGED gThrown
     \/ /\ gThrown' = "LaunchError"
        /\ gpc' = "threw"
        /\ UNCHANGED gBrowsers
  /\ UNCHANGED <<gDir, gFile, gJar, gSnap, gErr, gRuns, gCloseCalls, gLogins, gTry>>
  /\ SetupOnly

\* line 49: browser.createContext(), outside the try block.
GCreateContext ==
  /\ gpc = "createContext"
  /\ \/ /\ gpc' = "newPage"
        /\ gJar' = <<>>
        /\ UNCHANGED gThrown
     \/ /\ gThrown' = "ContextError"
        /\ gpc' = "threw"
        /\ UNCHANGED gJar
  /\ UNCHANGED <<gDir, gFile, gBrowsers, gSnap, gErr, gRuns, gCloseCalls, gLogins, gTry>>
  /\ SetupOnly

\* line 50: context.newPage(), outside the try block; on success the try
\* block is entered (line 52).
GNewPage ==
  /\ gpc = "newPage"
  /\ \/ /\ gpc' = "goto"
        /\ gTry' = TRUE
        /\ UNCHANGED gThrown
     \/ /\ gThrown' = "PageError"
        /\ gpc' = "threw"
        /\ UNCHANGED gTry
  /\ UNCHANGED <<gDir, gFile, gBrowsers, gJar, gSnap, gErr, gRuns, gCloseCalls, gLogins>>
  /\ SetupOnly

\* The context of the current invocation can still be used: its browser
\* runs and browser.close() has not been called.
ContextLive == gBrowsers > 0 /\ gCloseCalls = 0

\* lines 54-62: goto, fill, fill, click, waitForSelector.  The login is
\* complete when the inventory container has appeared; the context then holds
\* the session cookies.
\* (GBodyClosesAfterLogin is the fault "browser.close() before the state is
\* saved".)
GBodyClosesAfterLogin ==
  /\ gpc \in { BodyOrder[i] : i \in 1..Len(BodyOrder) }
  /\ \/ /\ gpc' = AfterBody(gpc)
        /\ IF gpc = "waitSel"
             THEN /\ \E s \in States : gJar' = s
                  /\ gLogins' = gLogins + 1
                  /\ gBrowsers' = gBrowsers - 1
                  /\ gCloseCalls' = gCloseCalls + 1
             ELSE UNCHANGED <<gJar, gLogins, gBrowsers, gCloseCalls>>
        /\ UNCHANGED gErr
     \/ /\ gErr' = BodyError(gpc)
        /\ gpc' = "catch"
        /\ UNCHANGED <<gJar, gLogins, gBrowsers, gCloseCalls>>
  /\ UNCHANGED <<gDir, gFile, gSnap, gThrown, gRuns, gTry>>
  /\ SetupOnly
GBody ==
  /\ gpc \in { BodyOrder[i] : i \in 1..Len(BodyOrder) }
  /\ \/ /\ gpc' = AfterBody(gpc)
        /\ IF gpc = "waitSel"
             THEN /\ \E s \in States : gJar' = s
                  /\ gLogins' = gLogins + 1
             ELSE UNCHANGED <<gJar, gLogins>>
        /\ UNCHANGED gErr
     \/ /\ gErr' = BodyError(gpc)
        /\ gpc' = "catch"
        /\ UNCHANGED <<gJar, gLogins>>
  /\ UNCHANGED <<gDir, gFile, gBrowsers, gSnap, gThrown, gRuns, gCloseCalls, gTry>>
  /\ SetupOnly

\* line 65, first part: context.storageState() captures the live context;
\* on a closed context the call rejects.
GCapture ==
  /\ gpc = "storageState"
  /\ \/ /\ ContextLive
        /\ gSnap' = gJar
        /\ gpc' = "ssOpen"
        /\ UNCHANGED gErr
     \/ /\ gErr' = "CaptureError"
        /\ gpc' = "catch"
        /\ UNCHANGED gSnap
  /\ UNCHANGED <<gDir, gFile, gBrowsers, gJar, gThrown, gRuns, gCloseCalls, gLogins, gTry>>
  /\ SetupOnly

\* line 65, second part: the final path is opened for writing.
GOpenFile ==
  /\ gpc = "ssOpen"
  /\ \/ /\ gFile' = OpenTruncate(gFile)
        /\ gpc' = "ssWrite"
        /\ UNCHANGED gErr
     \/ /\ gErr' = "PersistError"
        /\ gpc' = "catch"
        /\ UNCHANGED gFile
  /\ UNCHANGED <<gDir, gBrowsers, gJar, gSnap, gThrown, gRuns, gCloseCalls, gLogins, gTry>>
  /\ SetupOnly

\* line 65, third part: the serialized state is written; lines 67-68 log.
GWriteFile ==
  /\ gpc = "ssWrite"
  /\ \/ /\ gFile' = WriteAt0(gFile, Serialize(gSnap))
        /\ gpc' = "finally"
        /\ UNCHANGED gErr
     \/ /\ gErr' = "PersistError"
        /\ gpc' = "catch"
        /\ UNCHANGED gFile
  /\ UNCHANGED <<gDir, gBrowsers, gJar, gSnap, gThrown, gRuns, gCloseCalls, gLogins, gTry>>
  /\ SetupOnly

\* lines 70-72: log and rethrow the same error.
\* (GCatchAndClose is the fault "the catch block closes the browser too";
\* GCatchSwallow is the fault "the catch block logs and does not rethrow".)
GCatchAndClose ==
  /\ gpc = "catch"
  /\ gpc' = "finally"
  /\ gBrowsers' = gBrowsers - 1
  /\ gCloseCalls' = gCloseCalls + 1
  /\ UNCHANGED <<gDir, gFile, gJar, gSnap, gErr, gThrown, gRuns, gLogins, gTry>>
  /\ SetupOnly
GCatchSwallow ==
  /\ gpc = "catch"
  /\ gpc' = "finally"
  /\ gErr' = NoError
  /\ UNCHANGED <<gDir, gFile, gBrowsers, gJar, gSnap, gThrown, gRuns,
                 gCloseCalls, gLogins, gTry>>
  /\ SetupOnly
GCatch ==
  /\ gpc = "catch"
  /\ gpc' = "finally"
  /\ UNCHANGED <<gDir, gFile, gBrowsers, gJar, gSnap, gErr, gThrown, gRuns,
                 gCloseCalls, gLogins, gTry>>
  /\ SetupOnly

\* lines 73-76: browser.close(), then the pending error (if any) propagates.
\* (GFinallySkipOnError is the fault "close() only on the success path".)
GFinallySkipOnError ==
  /\ gpc = "finally"
  /\ IF gErr = NoError
       THEN /\ gBrowsers' = gBrowsers - 1
            /\ gCloseCalls' = gCloseCalls + 1
       ELSE UNCHANGED <<gBrowsers, gCloseCalls>>
  /\ gThrown' = gErr
  /\ gpc' = IF gErr = NoError THEN "returned" ELSE "threw"
  /\ UNCHANGED <<gDir, gFile, gJar, gSnap, gErr, gRuns, gLogins, gTry>>
  /\ SetupOnly
GFinally ==
  /\ gpc = "finally"
  /\ gBrowsers' = gBrowsers - 1
  /\ gCloseCalls' = gCloseCalls + 1
  /\ gThrown' = gErr
  /\ gpc' = IF gErr = NoError THEN "returned" ELSE "threw"
  /\ UNCHANGED <<gDir, gFile, gJar, gSnap, gErr, gRuns, gLogins, gTry>>
  /\ SetupOnly

\* The runner is started again (a later "npx playwright test").
GAgain ==
  /\ gpc \in {"returned", "threw"}
  /\ gRuns < MaxInvocations
  /\ gpc' = "idle"
  /\ UNCHANGED <<gDir, gFile, gBrowsers, gJar, gSnap, gErr, gThrown, gRuns,
                 gCloseCalls, gLogins, gTry>>
  /\ SetupOnly

SetupStep ==
  \/ GStart
  \/ GLaunch
  \/ GCreateContext
  \/ GNewPage
  \/ GBody
  \/ GCapture
  \/ GOpenFile
  \/ GWriteFile
  \/ GCatch
  \/ GFinally

SetupNext ==
  \/ SetupStep
  \/ GAgain

----------------------------------------------------------------------------
(* Saving and loading the state of one context, one operation after another *)
(* (BasePage.saveStorageState, LoginPage.login, tests 02 and 04 of the auth *)
(* group)                                                                   *)

StoreIdle ==
  /\ sFile = Absent
  /\ sJar = <<>>
  /\ sLoaded = NoRead
  /\ sOutcome = "none"
  /\ sLast = "none"
  /\ sSaved = <<>>
  /\ sPrev = <<>>
  /\ sSaves = 0
  /\ sIntact = FALSE

\* The identifier was never persisted, or an earlier run left a state file.
StoreStart ==
  /\ sFile \in {Absent} \cup { FileOf(Serialize(s)) : s \in States }
  /\ sJar = <<>>
  /\ sLoaded = NoRead
  /\ sOutcome = "none"
  /\ sLast = "none"
  /\ sSaved = <<>>
  /\ sPrev = <<>>
  /\ sSaves = 0
  /\ sIntact = FALSE

\* storageState({ path }): the captured state replaces the text of the file.
Persist(f, s) == WriteAt0(OpenTruncate(f), Serialize(s))

\* The assertions of test 02 (lines 148-156) and test 04 (lines 244-245) on
\* the parsed file; an exception of the read or the parse fails the test.
OutcomeOfLoad(r) ==
  IF r.kind = "state" /\ Len(r.cookies) > 0 THEN "passed" ELSE "failed"

\* LoginPage.login resolved: the context holds the cookies of the session.
SLogin ==
  /\ \E s \in States : sJar' = s
  /\ sLast' = "login"
  /\ UNCHANGED <<sFile, sLoaded, sOutcome, sSaved, sPrev, sSaves, sIntact>>
  /\ StoreOnly

\* BasePage.saveStorageState(filepath) resolved.
SPersist ==
  /\ sFile' = Persist(sFile, sJar)
  /\ sPrev' = sSaved
  /\ sSaved' = sJar
  /\ sSaves' = IF sSaves < 2 THEN sSaves + 1 ELSE 2
  /\ sLast' = "persist"
  /\ sIntact' = TRUE
  /\ UNCHANGED <<sJar, sLoaded, sOutcome>>
  /\ StoreOnly

\* BasePage.saveStorageState(filepath) rejected: nothing was written, or the
\* file was opened and the write failed.
SPersistFails ==
  /\ \/ sFile' = sFile
     \/ sFile' = OpenTruncate(sFile)
  /\ sLast' = "persistFailed"
  /\ sIntact' = FALSE
  /\ UNCHANGED <<sJar, sLoaded, sOutcome, sSaved, sPrev, sSaves>>
  /\ StoreOnly

\* The body of test 02 or 04: JSON.parse(fs.readFileSync(authFile)), then the
\* assertions on the cookies.
SLoad ==
  /\ sLoaded' = ReadParse(sFile)
  /\ sOutcome' = OutcomeOfLoad(ReadParse(sFile))
  /\ sLast' = "load"
  /\ UNCHANGED <<sFile, sJar, sSaved, sPrev, sSaves, sIntact>>
  /\ StoreOnly

StoreNext ==
  \/ SLogin
  \/ SPersist
  \/ SPersistFails
  \/ SLoad

----------------------------------------------------------------------------
(* LoginPage.login and LoginPage.loginAndSaveState (src/unnamed/part_000)  *)

\* login, lines 65-68: the awaited calls in program order, and the error
\* each rejects with (waitForElement has a timeout of 10000 ms).
LoginSteps == <<"fillUser", "fillPass", "click", "waitTitle">>
LoginError(pos) ==
  CASE pos = "fillUser"  -> "FillError"
    [] pos = "fillPass"  -> "FillError"
    [] pos = "click"     -> "ClickError"
    [] pos = "waitTitle" -> "TimeoutError"
    [] OTHER             -> "Error"
LoginIndex(pos) == CHOOSE i \in 1..Len(LoginSteps) : LoginSteps[i] = pos
AfterLogin(pos) ==
  IF LoginIndex(pos) < Len(LoginSteps) THEN LoginSteps[LoginIndex(pos) + 1]
  ELSE "ssOpen"

LoginIdle ==
  /\ lPc = "idle"
  /\ lDone = <<>>
  /\ lFile = Absent
  /\ lJar = <<>>
  /\ lErr = NoError

\* Nothing was saved under statePath yet, or an earlier call left a state.
LoginStart ==
  /\ lPc = "idle"
  /\ lDone = <<>>
  /\ lFile \in {Absent} \cup { FileOf(Serialize(s)) : s \in States }
  /\ lJar = <<>>
  /\ lErr = NoError

\* line 97: loginAndSaveState is called and calls login (line 98).
LCall ==
  /\ lPc = "idle"
  /\ lPc' = LoginSteps[1]
  /\ UNCHANGED <<lDone, lFile, lJar, lErr>>
  /\ LoginOnly

\* lines 65-68: one awaited step of login resolves, or it rejects and the
\* rejection leaves login and loginAndSaveState.  When the products title
\* has appeared the context holds the cookies of the session.
\* (LStepNotAwaited is the fault "a step is not awaited: its rejection does
\* not stop the method".)
LStepNotAwaited ==
  /\ lPc \in { LoginSteps[i] : i \in 1..Len(LoginSteps) }
  /\ \/ /\ lPc' = AfterLogin(lPc)
        /\ lDone' = Append(lDone, lPc)
        /\ IF lPc = "waitTitle" THEN \E s \in States : lJar' = s
           ELSE UNCHANGED lJar
        /\ UNCHANGED lErr
     \/ /\ lPc' = AfterLogin(lPc)
        /\ UNCHANGED <<lDone, lJar, lErr>>
  /\ UNCHANGED lFile
  /\ LoginOnly
LStep ==
  /\ lPc \in { LoginSteps[i] : i \in 1..Len(LoginSteps) }
  /\ \/ /\ lPc' = AfterLogin(lPc)
        /\ lDone' = Append(lDone, lPc)
        /\ IF lPc = "waitTitle" THEN \E s \in States : lJar' = s
           ELSE UNCHANGED lJar
        /\ UNCHANGED lErr
     \/ /\ lPc' = "threw"
        /\ lErr' = LoginError(lPc)
        /\ UNCHANGED <<lDone, lJar>>
  /\ UNCHANGED lFile
  /\ LoginOnly

\* line 99, BasePage.saveStorageState: storageState captures the context
\* and opens the path for writing, or it rejects.
LSaveOpen ==
  /\ lPc = "ssOpen"
  /\ \/ /\ lFile' = OpenTruncate(lFile)
        /\ lPc' = "ssWrite"
        /\ UNCHANGED lErr
     \/ /\ lPc' = "threw"
        /\ lErr' = "PersistError"
        /\ UNCHANGED lFile
  /\ UNCHANGED <<lDone, lJar>>
  /\ LoginOnly

\* line 99: the serialized state is written and the call returns, or the
\* write rejects.
LSaveWrite ==
  /\ lPc = "ssWrite"
  /\ \/ /\ lFile' = WriteAt0(lFile, Serialize(lJar))
        /\ lPc' = "returned"
        /\ UNCHANGED lErr
     \/ /\ lPc' = "threw"
        /\ lErr' = "PersistError"
        /\ UNCHANGED lFile
  /\ UNCHANGED <<lDone, lJar>>
  /\ LoginOnly

LoginNext ==
  \/ LCall
  \/ LStep
  \/ LSaveOpen
  \/ LSaveWrite

----------------------------------------------------------------------------
(* The serial authentication group (src/unnamed/part_003), run once per    *)
(* project; all projects use the same authFile (line 36)                   *)

Projects == 1..NumProjects
Tests == 1..4

\* playwright.config.js: retries: process.env.CI ? 2 : 0
CIRetries == 2
Retries == IF aCI THEN CIRetries ELSE 0
\* playwright.config.js: workers: process.env.CI ? 1 : undefined
Workers == IF aCI THEN 1 ELSE DefaultWorkers

NoOutcomes == [k \in Tests |-> "none"]
Failures == {"failed", "timedOut"}

\* The test a position belongs to (0: not in a test body).
TestOf(pc) ==
  CASE pc \in {"t1_login", "t1_open", "t1_write", "t1_verify"} -> 1
    [] pc = "t2" -> 2
    [] pc \in {"t3_read", "t3_seed", "t3_check"} -> 3
    [] pc = "t4" -> 4
    [] OTHER -> 0

FirstPcOf(k) ==
  CASE k = 1 -> "t1_login"
    [] k = 2 -> "t2"
    [] k = 3 -> "t3_read"
    [] k = 4 -> "t4"
    [] OTHER -> "done"

\* test.describe.serial: the next test of the group runs only when this one
\* passed; after a failure the rest of the group does not run.
\* (NextAlways is the fault "a plain describe: every test runs".)
NextAlways(k, o) == k + 1
NextInSerial(k, o) == IF o = "passed" THEN k + 1 ELSE 5

\* The outcomes after test k of project p ended with o: the result is
\* recorded, and the tests that serial mode will not run any more are
\* reported as skipped.  (RecordSuiteWide is the fault "a failure stops
\* the tests of every project".)
RecordSuiteWide(out, p, k, o) ==
  [q \in Projects |->
     [j \in Tests |->
        IF q = p /\ j = k THEN o
        ELSE IF o # "passed" /\ out[q][j] = "none" /\ (q # p \/ j > k)
               THEN "skipped"
        ELSE out[q][j]]]
Record(out, p, k, o) ==
  [out EXCEPT ![p] =
     [j \in Tests |->
        IF j = k THEN o
        ELSE IF j > k /\ NextInSerial(k, o) > 4 THEN "skipped"
        ELSE out[p][j]]]

NeverRead == [by |-> 0, file |-> Absent]

\* Entries that the login leaves in the localStorage of the site and that
\* storageState saves next to the cookies (part_003 line 87).
StorageEntries == {"localStorage-entry"}

\* Test 03 has read nothing and installed nothing.
NoSeed == [cookies |-> <<>>, storage |-> {}, gotCookies |-> <<>>,
           gotStorage |-> {}, navigated |-> FALSE]

AuthIdle ==
  /\ aCI = FALSE
  /\ aFile = Absent
  /\ aPc = [p \in Projects |-> "done"]
  /\ aOut = [p \in Projects |-> NoOutcomes]
  /\ aTry = [p \in Projects |-> 0]
  /\ aCap = [p \in Projects |-> <<>>]
  /\ aSaved = [p \in Projects |-> FALSE]
  /\ aWorkers = {}
  /\ aLastRead = NeverRead
  /\ aSeed = [p \in Projects |-> NoSeed]
  /\ aWriter = 0

\* The group is queued for every project; the auth file is absent or was
\* left by an earlier run.
AuthStart ==
  /\ aCI \in BOOLEAN
  /\ aFile \in {Absent, FileOf(Serialize(<<"session-username", "tracking">>))}
  /\ aPc = [p \in Projects |-> "queued"]
  /\ aOut = [p \in Projects |-> NoOutcomes]
  /\ aTry = [p \in Projects |-> 0]
  /\ aCap = [p \in Projects |-> <<>>]
  /\ aSaved = [p \in Projects |-> FALSE]
  /\ aWorkers = {}
  /\ aLastRead = NeverRead
  /\ aSeed = [p \in Projects |-> NoSeed]
  /\ aWriter = 0

\* Test k of project p ends with outcome o.  After a pass the next test of
\* the group starts in the same worker; after a failure the worker is given
\* up and the group is retried from test 01 while retries are left.
EndTest(p, k, o) ==
  IF NextInSerial(k, o) <= 4
    THEN /\ aOut' = Record(aOut, p, k, o)
         /\ aPc' = [aPc EXCEPT ![p] = FirstPcOf(NextInSerial(k, o))]
         /\ UNCHANGED <<aTry, aWorkers>>
    ELSE IF o # "passed" /\ aTry[p] < Retries
      THEN /\ aOut' = [aOut EXCEPT ![p] = NoOutcomes]
           /\ aPc' = [aPc EXCEPT ![p] = "queued"]
           /\ aTry' = [aTry EXCEPT ![p] = aTry[p] + 1]
           /\ aWorkers' = aWorkers \ {p}
      ELSE /\ aOut' = Record(aOut, p, k, o)
           /\ aPc' = [aPc EXCEPT ![p] = "done"]
           /\ aWorkers' = aWorkers \ {p}
           /\ UNCHANGED aTry

\* A free worker takes the group of project p (a new attempt starts clean).
AStartGroup(p) ==
  /\ aPc[p] = "queued"
  /\ p \notin aWorkers
  /\ Cardinality(aWorkers) < Workers
  /\ aWorkers' = aWorkers \cup {p}
  /\ aPc' = [aPc EXCEPT ![p] = "t1_login"]
  /\ aSaved' = [aSaved EXCEPT ![p] = FALSE]
  /\ UNCHANGED <<aCI, aFile, aOut, aTry, aCap, aLastRead, aSeed>>
  /\ UNCHANGED aWriter
  /\ AuthOnly

\* test 01, lines 68-92: mkdir, navigate, login, wait for the products.
ALogin(p) ==
  /\ aPc[p] = "t1_login"
  /\ \/ /\ aPc' = [aPc EXCEPT ![p] = "t1_open"]
        /\ UNCHANGED <<aOut, aTry, aWorkers>>
     \/ \E o \in Failures : EndTest(p, 1, o)
  /\ UNCHANGED <<aCI, aFile, aCap, aSaved, aLastRead, aSeed>>
  /\ UNCHANGED aWriter
  /\ AuthOnly

\* test 01, line 96: storageState({ path: authFile }) captures the cookies
\* of the logged-in context and opens the final path.
AOpen(p) ==
  /\ aPc[p] = "t1_open"
  /\ \/ /\ \E s \in States : aCap' = [aCap EXCEPT ![p] = s]
        /\ aFile' = OpenTruncate(aFile)
        /\ aPc' = [aPc EXCEPT ![p] = "t1_write"]
        /\ UNCHANGED <<aOut, aTry, aWorkers>>
     \/ /\ \E o \in Failures : EndTest(p, 1, o)
        /\ UNCHANGED <<aFile, aCap>>
  /\ UNCHANGED <<aCI, aSaved, aLastRead, aSeed>>
  /\ UNCHANGED aWriter
  /\ AuthOnly

\* test 01, line 96: storageState writes the text and resolves.
AWrite(p) ==
  /\ aPc[p] = "t1_write"
  /\ aCap' = [aCap EXCEPT ![p] = <<>>]
  /\ \/ /\ aFile' = WriteAt0(aFile, Serialize(aCap[p]))
        /\ aWriter' = p
        /\ aSaved' = [aSaved EXCEPT ![p] = TRUE]
        /\ aPc' = [aPc EXCEPT ![p] = "t1_verify"]
        /\ UNCHANGED <<aOut, aTry, aWorkers>>
     \/ /\ \E o \in Failures : EndTest(p, 1, o)
        /\ UNCHANGED <<aFile, aSaved, aWriter>>
  /\ UNCHANGED <<aCI, aLastRead, aSeed>>
  /\ AuthOnly

\* A synchronous read of the auth file followed by the assertions on its
\* cookies: test 01 lines 99-104, test 02 lines 138-156, test 04 lines
\* 239-245.
AReadAndAssert(p) ==
  /\ aPc[p] \in {"t1_verify", "t2", "t4"}
  /\ aLastRead' = [by |-> p, file |-> aFile]
  /\ EndTest(p, TestOf(aPc[p]), OutcomeOfLoad(ReadParse(aFile)))
  /\ UNCHANGED <<aCI, aFile, aCap, aSaved, aSeed>>
  /\ UNCHANGED aWriter
  /\ AuthOnly

\* test 03, line 182: the read; an exception fails the test.  authData
\* holds the saved cookies and the saved localStorage entries.
ATest03Read(p) ==
  /\ aPc[p] = "t3_read"
  /\ aLastRead' = [by |-> p, file |-> aFile]
  /\ IF ReadParse(aFile).kind = "state"
       THEN /\ aPc' = [aPc EXCEPT ![p] = "t3_seed"]
            /\ \E ls \in SUBSET StorageEntries :
                 aSeed' = [aSeed EXCEPT ![p] =
                             [NoSeed EXCEPT !.cookies = ReadParse(aFile).cookies,
                                            !.storage = ls]]
            /\ UNCHANGED <<aOut, aTry, aWorkers>>
       ELSE /\ EndTest(p, 3, "failed")
            /\ UNCHANGED aSeed
  /\ UNCHANGED <<aCI, aFile, aCap, aSaved>>
  /\ UNCHANGED aWriter
  /\ AuthOnly

\* test 03, lines 185-187: one awaited addCookies([cookie]) per saved
\* cookie, in order; nothing else of authData is installed.
ATest03Seed(p) ==
  /\ aPc[p] = "t3_seed"
  /\ Len(aSeed[p].gotCookies) < Len(aSeed[p].cookies)
  /\ \/ /\ aSeed' = [aSeed EXCEPT ![p].gotCookies =
                        Append(@, aSeed[p].cookies[Len(@) + 1])]
        /\ UNCHANGED <<aPc, aOut, aTry, aWorkers>>
     \/ /\ \E o \in Failures : EndTest(p, 3, o)
        /\ aSeed' = [aSeed EXCEPT ![p] = NoSeed]
  /\ UNCHANGED <<aCI, aFile, aCap, aSaved, aLastRead>>
  /\ UNCHANGED aWriter
  /\ AuthOnly

\* test 03, line 191: the loop is over and page.goto of the inventory page
\* is issued.
ATest03Nav(p) ==
  /\ aPc[p] = "t3_seed"
  /\ Len(aSeed[p].gotCookies) >= Len(aSeed[p].cookies)
  /\ aSeed' = [aSeed EXCEPT ![p].navigated = TRUE]
  /\ aPc' = [aPc EXCEPT ![p] = "t3_check"]
  /\ UNCHANGED <<aCI, aFile, aOut, aTry, aCap, aSaved, aWorkers, aLastRead>>
  /\ UNCHANGED aWriter
  /\ AuthOnly

\* test 03, lines 191-199: the navigation settles, the products are waited
\* for and counted; the context is disposed of with the test.
ATest03Check(p) ==
  /\ aPc[p] = "t3_check"
  /\ \E o \in {"passed"} \cup Failures : EndTest(p, 3, o)
  /\ aSeed' = [aSeed EXCEPT ![p] = NoSeed]
  /\ UNCHANGED <<aCI, aFile, aCap, aSaved, aLastRead>>
  /\ UNCHANGED aWriter
  /\ AuthOnly

AuthNext ==
  \E p \in Projects :
    \/ AStartGroup(p)
    \/ ALogin(p)
    \/ AOpen(p)
    \/ AWrite(p)
    \/ AReadAndAssert(p)
    \/ ATest03Read(p)
    \/ ATest03Seed(p)
    \/ ATest03Nav(p)
    \/ ATest03Check(p)

----------------------------------------------------------------------------
(* One worker driving a page: InternetPage.clickNewWindowLink and the      *)
(* bodies of the iframe and multi-tab tests.  A body is a sequence of      *)
(* statements; the browser settles the operations in any order.            *)

\* context.waitForEvent('page') promises, the page.waitForURL promise, and
\* the page.waitForSelector promise of BasePage.waitForElement.
PageWaits == {"waitEarly", "waitMain"}
UrlWaits == {"waitUrl"}
SelectorWaits == {"waitSel"}
Waits == PageWaits \cup UrlWaits \cup SelectorWaits

\* The textContent() call on the i-th locator of getProductNames.
TextOp(i) == "text" \o ToString(i)
TextOps(n) == { TextOp(i) : i \in 1..n }

Plain == {"goto", "clickLink", "left", "right", "top", "clickHere", "title",
          "content", "close", "locAll", "newPage2", "goto2", "close2"}
           \cup TextOps(MaxProducts)
OpNames == Waits \cup Plain

\* Statements.  Op: issue an operation and await it.  Sub: call
\* context.waitForEvent('page') or page.waitForURL and keep the promise.  Fire: call an
\* operation as an element of a Promise.all array.  All: await the
\* Promise.all.  Check: synchronous expect() calls.
Op(n) == [k |-> "op", name |-> n, ops |-> {}]
Sub(n) == [k |-> "sub", name |-> n, ops |-> {}]
Fire(n) == [k |-> "fire", name |-> n, ops |-> {}]
All(S) == [k |-> "all", name |-> "", ops |-> S]
Check == [k |-> "check", name |-> "", ops |-> {}]

\* OpUnlessClosed: "if (!page2.isClosed()) { await page2.close(); }".
OpUnlessClosed(n) == [k |-> "opIf", name |-> n, ops |-> {}]

\* InternetPage.clickNewWindowLink, lines 154-162.  (ClickBeforeWait is the
\* fault the test comment warns of: click first, then wait.)
ClickBeforeWait ==
  << Op("clickHere"), Sub("waitMain"), All({"waitMain"}) >>
ClickNewWindowLink ==
  << Sub("waitMain"), Fire("clickHere"), All({"waitMain", "clickHere"}) >>

\* "should open new tab and get its title", lines 350-392.
NewTabTest ==
  << Op("goto"), Sub("waitEarly"), Op("goto"), Op("clickLink"),
     Sub("waitMain"), Fire("clickHere"), All({"waitMain", "clickHere"}),
     Op("title"), Check, Op("content"), Check, Op("close"), Check >>

\* "should handle multiple iframes independently", lines 120-134.
MultiFramesTest ==
  << Op("goto"), Op("clickLink"),
     Fire("left"), Fire("right"), Fire("top"), All({"left", "right", "top"}),
     Check >>

\* "should read text from nested iframes", lines 51-68.
NestedFramesTest ==
  << Op("goto"), Op("clickLink"), Op("left"), Check, Op("right"), Check,
     Op("top"), Check >>

\* "should properly wait for page navigation", lines 439-453.
WaitNavTest ==
  << Sub("waitUrl"), Op("goto"), Op("clickLink"), All({"waitUrl"}), Check >>

\* BasePage.waitForElement, lines 83-85: waitForSelector with a timeout.
WaitForElement == << Op("waitSel") >>

\* ProductsPage.getProductNames, lines 69-72, on a page that lists n
\* products: one textContent() per locator, all in one Promise.all.
GetProductNames(n) ==
  << Op("locAll") >> \o [i \in 1..n |-> Fire(TextOp(i))]
                    \o << All(TextOps(n)) >>

\* "should handle multiple pages in same context", lines 400-432: the try
\* block starts at the second statement, the finally block at the sixth.
\* (MultiPagesCloseAgain is the fault "the finally closes page2 without
\* asking isClosed()"; MultiPagesNoFinally is the fault "page2 is closed
\* only at the end of the try block".)
MultiPagesNoFinally ==
  << Op("newPage2"), Op("goto"), Op("goto2"), Check, Op("close2") >>
MultiPagesCloseAgain ==
  << Op("newPage2"), Op("goto"), Op("goto2"), Check, Op("close2"),
     Op("close2") >>
MultiPagesTest ==
  << Op("newPage2"), Op("goto"), Op("goto2"), Check, Op("close2"),
     OpUnlessClosed("close2") >>

\* Where the try block of a body starts and where its finally block starts
\* (0, 0: the body has none).
TryOf(b) ==
  IF b = "multiPages" THEN [from |-> 2, finally |-> 6]
  ELSE [from |-> 0, finally |-> 0]

Bodies == {"clickNewWindowLink", "newTab", "multiFrames", "nestedFrames",
           "waitNav", "getProductNames", "multiPages", "waitForElement"}
Prog(b, n) ==
  CASE b = "clickNewWindowLink" -> ClickNewWindowLink
    [] b = "newTab" -> NewTabTest
    [] b = "multiFrames" -> MultiFramesTest
    [] b = "waitNav" -> WaitNavTest
    [] b = "getProductNames" -> GetProductNames(n)
    [] b = "multiPages" -> MultiPagesTest
    [] b = "waitForElement" -> WaitForElement
    [] OTHER -> NestedFramesTest

InFlight == { o \in OpNames : pOps[o] = "flying" }
Running == pTest # "none" /\ pPhase = "body"
AtEnd == pIp > Len(Prog(pTest, pCount))
Stmt == Prog(pTest, pCount)[pIp]

\* The current statement is inside the try block of the body.
InTry == pIp >= TryOf(pTest).from /\ pIp < TryOf(pTest).finally

\* A statement throws: inside a try block the finally block runs with the
\* error pending; anywhere else the body is left with the error.
Throw ==
  IF InTry
    THEN /\ pIp' = TryOf(pTest).finally
         /\ pErr' = TRUE
         /\ UNCHANGED <<pPhase, pOut>>
    ELSE /\ pPhase' = "ended"
         /\ pOut' = "failed"
         /\ UNCHANGED <<pIp, pErr>>

\* page.close(): the page is closed afterwards, whatever it was before.
ClosePage(st) == "closed"

\* The URL of the page after an operation on it has resolved.
UrlAfter(o, url) ==
  CASE o = "goto" -> "home"
    [] o = "clickLink" -> "windows"
    [] OTHER -> url

\* page.waitForURL(/.*windows/) resolves once the page is at a matching URL.
UrlMatches(url) == url = "windows"

\* await: the body goes on when the awaited promise has settled.
\* (SettledOrNot is the fault "a missing await".)
SettledOrNot(st) == st # "idle"
Settled(st) == st \in {"ok", "err"}

\* waitForEvent('page') resolves with the first page opened after the call;
\* pages opened before it do not count.
FirstPageAfter(opened, at) == opened[at + 1]

AllIdle == [o \in OpNames |-> "idle"]
NoSubs == [w \in Waits |-> 0]

PageIdle ==
  /\ pTest = "none"
  /\ pPhase = "ended"
  /\ pIp = 1
  /\ pOps = AllIdle
  /\ pSubAt = NoSubs
  /\ pSubVal = NoSubs
  /\ pOpened = <<>>
  /\ pPopupDue = FALSE
  /\ pNewPage = 0
  /\ pOut = "none"
  /\ pRuns = 0
  /\ pUrl = "blank"
  /\ pCount = 0
  /\ pErr = FALSE
  /\ pPage2 = "none"
  /\ pLate = FALSE
  /\ pClosed = {}

\* The runner starts a body: the page fixture is the first page of a new
\* context (beforeEach, lines 334-340 and 36-39).
PBegin ==
  /\ pTest = "none"
  /\ pRuns < MaxBodies
  /\ \E b \in Bodies :
       /\ pTest' = b
       /\ pCount' \in IF b = "getProductNames" THEN 0..MaxProducts ELSE {0}
  /\ pUrl' = "blank"
  /\ pPhase' = "body"
  /\ pIp' = 1
  /\ pOps' = AllIdle
  /\ pSubAt' = NoSubs
  /\ pSubVal' = NoSubs
  /\ pOpened' = <<1>>
  /\ pPopupDue' = FALSE
  /\ pNewPage' = 0
  /\ pOut' = "none"
  /\ pRuns' = pRuns + 1
  /\ pErr' = FALSE
  /\ pPage2' = "none"
  /\ pLate' = FALSE
  /\ pClosed' = {}
  /\ PageOnly

\* The body calls an operation: an awaited one, an element of a Promise.all
\* array, or a wait whose promise it keeps.  A guarded close is called only
\* when isClosed() answers false.
PIssue ==
  /\ Running /\ ~AtEnd
  /\ Stmt.k \in {"op", "opIf", "fire", "sub"}
  /\ Stmt.k = "opIf" => pPage2 # "closed"
  /\ pOps[Stmt.name] = "idle"
  /\ pOps' = [pOps EXCEPT ![Stmt.name] = "flying"]
  /\ IF Stmt.k = "sub"
       THEN /\ pSubAt' = [pSubAt EXCEPT ![Stmt.name] = Len(pOpened)]
            /\ pSubVal' = [pSubVal EXCEPT ![Stmt.name] = 0]
       ELSE UNCHANGED <<pSubAt, pSubVal>>
  /\ pPopupDue' = (pPopupDue \/ Stmt.name = "clickHere")
  /\ pLate' = (pLate \/ (Stmt.name = "close2" /\ pPage2 = "closed"))
  /\ pIp' = IF Stmt.k \in {"op", "opIf"} THEN pIp ELSE pIp + 1
  /\ UNCHANGED <<pTest, pPhase, pOpened, pNewPage, pOut, pRuns, pUrl, pCount,
                 pErr, pPage2, pClosed>>
  /\ PageOnly

\* isClosed() answers true: the guarded close is not called.
PSkipClose ==
  /\ Running /\ ~AtEnd
  /\ Stmt.k = "opIf"
  /\ pOps[Stmt.name] = "idle"
  /\ pPage2 = "closed"
  /\ pIp' = pIp + 1
  /\ UNCHANGED <<pTest, pPhase, pOps, pSubAt, pSubVal, pOpened, pPopupDue,
                 pNewPage, pOut, pRuns, pUrl, pCount, pErr, pPage2, pLate, pClosed>>
  /\ PageOnly

\* await of a single operation: the body goes on with the next statement,
\* or the rejection is thrown.
PAwaitOp ==
  /\ Running /\ ~AtEnd
  /\ Stmt.k \in {"op", "opIf"}
  /\ Settled(pOps[Stmt.name])
  /\ IF pOps[Stmt.name] = "err"
       THEN /\ Throw
            /\ pOps' = IF InTry THEN [pOps EXCEPT ![Stmt.name] = "idle"]
                       ELSE pOps
       ELSE /\ pIp' = pIp + 1
            /\ pOps' = [pOps EXCEPT ![Stmt.name] =
                          IF pOps[Stmt.name] = "ok" THEN "idle" ELSE @]
            /\ UNCHANGED <<pPhase, pOut, pErr>>
  /\ UNCHANGED <<pTest, pSubAt, pSubVal, pOpened, pPopupDue, pNewPage, pRuns,
                 pUrl, pCount, pPage2, pLate, pClosed>>
  /\ PageOnly

\* await Promise.all([...]): rejects as soon as one element has rejected
\* (the others stay in flight), resolves when all have resolved; the first
\* element of the result is the page of the wait.
PAwaitAll ==
  /\ Running /\ ~AtEnd
  /\ Stmt.k = "all"
  /\ \/ /\ \E o \in Stmt.ops : pOps[o] = "err"
        /\ Throw
        /\ UNCHANGED <<pOps, pNewPage>>
     \/ /\ \A o \in Stmt.ops : pOps[o] = "ok"
        /\ pIp' = pIp + 1
        /\ pOps' = [o \in OpNames |-> IF o \in Stmt.ops THEN "idle" ELSE pOps[o]]
        /\ pNewPage' = IF "waitMain" \in Stmt.ops THEN pSubVal["waitMain"]
                       ELSE pNewPage
        /\ UNCHANGED <<pPhase, pOut, pErr>>
  /\ UNCHANGED <<pTest, pSubAt, pSubVal, pOpened, pPopupDue, pRuns, pUrl, pCount,
                 pPage2, pLate, pClosed>>
  /\ PageOnly

\* Synchronous expect() calls: they hold, or one throws.
PCheck ==
  /\ Running /\ ~AtEnd
  /\ Stmt.k = "check"
  /\ \/ /\ pIp' = pIp + 1
        /\ UNCHANGED <<pPhase, pOut, pErr>>
     \/ Throw
  /\ UNCHANGED <<pTest, pOps, pSubAt, pSubVal, pOpened, pPopupDue, pNewPage, pRuns,
                 pUrl, pCount, pPage2, pLate, pClosed>>
  /\ PageOnly

\* The body returns, or the error pending since the try block leaves it.
PReturn ==
  /\ Running /\ AtEnd
  /\ pPhase' = "ended"
  /\ pOut' = IF pErr THEN "failed" ELSE "passed"
  /\ UNCHANGED <<pTest, pIp, pOps, pSubAt, pSubVal, pOpened, pPopupDue, pNewPage,
                 pRuns, pUrl, pCount, pErr, pPage2, pLate, pClosed>>
  /\ PageOnly

\* The state of the second page after an operation on it has resolved.
Page2After(o, st) ==
  CASE o = "newPage2" -> "open"
    [] o = "close2" -> ClosePage(st)
    [] OTHER -> st

\* The pages that a close() call closes: newPage.close() (line 388) the
\* page that the Promise.all handed to the body, page2.close() (lines 426
\* and 429) the page of context.newPage().
\* (PageClosedByFixture is the fault "page.close() instead of
\* newPage.close()".)
PageClosedByFixture(o, newPage) ==
  CASE o = "close" -> {1}
    [] o = "close2" -> {2}
    [] OTHER -> {}
PageClosedBy(o, newPage) ==
  CASE o = "close" -> {newPage}
    [] o = "close2" -> {2}
    [] OTHER -> {}

\* The browser settles an operation.  The click on the target=_blank link
\* cannot reject once its page has opened; a close() of a page that is
\* already closed does nothing and resolves; a close() that rejects may
\* still have closed the page.
PSettle ==
  /\ pTest # "none"
  /\ \E o \in Plain :
       /\ pOps[o] = "flying"
       /\ \/ /\ pOps' = [pOps EXCEPT ![o] = "ok"]
             /\ pUrl' = UrlAfter(o, pUrl)
             /\ pPage2' = Page2After(o, pPage2)
             /\ pOpened' = IF o = "newPage2" THEN Append(pOpened, 2) ELSE pOpened
             /\ pClosed' = pClosed \cup PageClosedBy(o, pNewPage)
             /\ UNCHANGED pPopupDue
          \/ /\ o = "clickHere" => Len(pOpened) = 1
             /\ o = "close2" => pPage2 # "closed"
             /\ pOps' = [pOps EXCEPT ![o] = "err"]
             /\ pPopupDue' = (pPopupDue /\ o # "clickHere")
             /\ pPage2' \in IF o = "close2" THEN {pPage2, "closed"} ELSE {pPage2}
             /\ pClosed' = IF pPage2' # pPage2 THEN pClosed \cup PageClosedBy(o, pNewPage)
                           ELSE pClosed
             /\ UNCHANGED <<pUrl, pOpened>>
  /\ UNCHANGED <<pTest, pPhase, pIp, pSubAt, pSubVal, pNewPage, pOut, pRuns, pCount,
                 pErr, pLate>>
  /\ PageOnly

\* The click opened the new tab: the context emits 'page', and every wait
\* that is subscribed resolves with the page.
PPageOpens ==
  /\ pTest # "none"
  /\ pPopupDue
  /\ pPopupDue' = FALSE
  /\ pOpened' = Append(pOpened, 2)
  /\ pOps' = [o \in OpNames |->
                IF o \in PageWaits /\ pOps[o] = "flying" THEN "ok"
                ELSE pOps[o]]
  /\ pSubVal' = [w \in Waits |->
                   IF w \in PageWaits /\ pOps[w] = "flying"
                     THEN FirstPageAfter(Append(pOpened, 2), pSubAt[w])
                     ELSE pSubVal[w]]
  /\ UNCHANGED <<pTest, pPhase, pIp, pSubAt, pNewPage, pOut, pRuns, pUrl, pCount, pErr, pPage2, pLate, pClosed>>
  /\ PageOnly

\* The page has reached a URL that a pending waitForURL matches.
PUrlMatches ==
  /\ pTest # "none"
  /\ UrlMatches(pUrl)
  /\ \E w \in UrlWaits :
       /\ pOps[w] = "flying"
       /\ pOps' = [pOps EXCEPT ![w] = "ok"]
  /\ UNCHANGED <<pTest, pPhase, pIp, pSubAt, pSubVal, pOpened, pPopupDue, pNewPage,
                 pOut, pRuns, pUrl, pCount, pErr, pPage2, pLate, pClosed>>
  /\ PageOnly

\* The element of a pending waitForSelector has become visible.
PElementAppears ==
  /\ pTest # "none"
  /\ \E w \in SelectorWaits :
       /\ pOps[w] = "flying"
       /\ pOps' = [pOps EXCEPT ![w] = "ok"]
  /\ UNCHANGED <<pTest, pPhase, pIp, pSubAt, pSubVal, pOpened, pPopupDue, pNewPage,
                 pOut, pRuns, pUrl, pCount, pErr, pPage2, pLate, pClosed>>
  /\ PageOnly

\* A pending wait reaches its timeout.
PWaitTimesOut ==
  /\ pTest # "none"
  /\ \E w \in Waits :
       /\ pOps[w] = "flying"
       /\ pOps' = [pOps EXCEPT ![w] = "err"]
  /\ UNCHANGED <<pTest, pPhase, pIp, pSubAt, pSubVal, pOpened, pPopupDue, pNewPage,
                 pOut, pRuns, pUrl, pCount, pErr, pPage2, pLate, pClosed>>
  /\ PageOnly

\* playwright.config.js, "timeout: 30 * 1000": the runner bounds every test.
\* (NoTestTimeout is the fault "timeout: 0", which switches the bound off.)
NoTestTimeout == FALSE
TestTimeoutSet == TRUE

\* The test exceeds the timeout of the runner, whatever the body is waiting
\* for: the run is over as timedOut and the fixtures are torn down next.
PTestTimeout ==
  /\ TestTimeoutSet
  /\ Running
  /\ pPhase' = "ended"
  /\ pOut' = "timedOut"
  /\ UNCHANGED <<pTest, pIp, pOps, pSubAt, pSubVal, pOpened, pPopupDue, pNewPage,
                 pRuns, pUrl, pCount, pErr, pPage2, pLate, pClosed>>
  /\ PageOnly

\* The fixtures are torn down: the context is closed with its pages and
\* whatever was still in flight against it.
PTeardown ==
  /\ pTest # "none"
  /\ pPhase = "ended"
  /\ pTest' = "none"
  /\ pOps' = AllIdle
  /\ pOpened' = <<>>
  /\ pPopupDue' = FALSE
  /\ pPage2' = IF pPage2 = "none" THEN "none" ELSE ClosePage(pPage2)
  /\ pClosed' = {}
  /\ UNCHANGED <<pPhase, pIp, pSubAt, pSubVal, pNewPage, pOut, pRuns, pUrl, pCount,
                 pErr, pLate>>
  /\ PageOnly

\* The steps that the event loop of the worker takes by itself.
PBodyStep ==
  \/ PIssue
  \/ PSkipClose
  \/ PAwaitOp
  \/ PAwaitAll
  \/ PCheck
  \/ PReturn

\* The steps that depend on the page answering.
PPageStep ==
  \/ PSettle
  \/ PPageOpens
  \/ PUrlMatches
  \/ PElementAppears

PageNext ==
  \/ PBegin
  \/ PBodyStep
  \/ PPageStep
  \/ PWaitTimesOut
  \/ PTestTimeout
  \/ PTeardown

----------------------------------------------------------------------------
(* The runner: every test is expanded into one run per selected project;   *)
(* workers take the runs from a queue; a run acquires a fresh context, the *)
(* beforeEach hook keeps its page in the describe-level variable, the body *)
(* runs, the result is reported and the context is released.               *)

\* playwright.config.js, projects, in declaration order.
\* (ProjectsWithDuplicate is the fault "a project is declared twice".)
ProjectsWithDuplicate ==
  << "chromium", "chromium", "webkit", "Mobile Chrome", "Mobile Safari" >>
ProjectNames ==
  << "chromium", "firefox", "webkit", "Mobile Chrome", "Mobile Safari" >>
DeclaredTargets == SubSeq(ProjectNames, 1, MaxTargets)

\* "npx playwright test --project=...": the declared projects that are
\* selected, still in declaration order.
RECURSIVE Selected(_, _)
Selected(decl, S) ==
  IF decl = <<>> THEN <<>>
  ELSE IF Head(decl) \in S THEN <<Head(decl)>> \o Selected(Tail(decl), S)
  ELSE Selected(Tail(decl), S)

\* The tests that are fanned out: "should work across all browsers
\* (Chrome, Firefox, Safari)" and "should work on multiple devices", which
\* every project runs.
RunnerTests == << "all browsers", "multiple devices" >>

\* "npx playwright test -g ...": the tests of an invocation, one or more
\* of the declared ones, still in declaration order.
TestSelections ==
  { Selected(RunnerTests, S) :
      S \in (SUBSET { RunnerTests[i] : i \in 1..Len(RunnerTests) }) \ {{}} }

RunnerWorkers == 1..DefaultWorkers

NoTarget == "none"
NoEngine == <<0, NoTarget>>
Outcomes == {"passed", "failed", "timedOut", "skipped"}
Finished == {"passed", "failed", "timedOut"}

\* A run as it is queued.
NewRun(t, g) ==
  [test |-> t, target |-> g, state |-> "pending", outcome |-> "none",
   ctx |-> 0, seen |-> 0, worker |-> 0, engine |-> NoEngine]

\* EngineMatrix.expand: one run per target, in the order of the targets.
\* (ExpandReversed is the fault "the runs are collected in reverse".)
RECURSIVE ExpandReversed(_, _)
ExpandReversed(targets, t) ==
  IF targets = <<>> THEN <<>>
  ELSE ExpandReversed(Tail(targets), t) \o << NewRun(t, Head(targets)) >>
RECURSIVE Expand(_, _)
Expand(targets, t) ==
  IF targets = <<>> THEN <<>>
  ELSE << NewRun(t, Head(targets)) >> \o Expand(Tail(targets), t)

\* One result of the report.
Result(t, g, o) == [test |-> t, target |-> g, outcome |-> o]
OneResult(t, g, o) == SetToBag({Result(t, g, o)})

\* The module scope in which a worker keeps the describe-level variable
\* "page": every worker process loads the test file itself.
\* (SlotShared is the fault "one variable for all workers".)
SlotShared(w) == 1
Slot(w) == w

\* BrowserContextPool.acquire: a context that no run has held before.
FreshContext(n) == n + 1

\* test.beforeEach: the variable of the worker's module scope is assigned
\* the page of the test that is about to run (page = testPage;
\* internetPage = new InternetPage(page), whose constructor keeps the page).
\* (BeforeAllOnly is the fault "assigned once per worker, as in a
\* beforeAll hook".)
BeforeAllOnly(var, w, c) ==
  IF var[Slot(w)] = 0 THEN [var EXCEPT ![Slot(w)] = c] ELSE var
BeforeEach(var, w, c) == [var EXCEPT ![Slot(w)] = c]

\* The browser process that backs the contexts of worker w for project g:
\* a worker runs the tests of one project and launches its own browser.
\* (EngineShared is the fault "one browser per project for all workers".)
EngineShared(w, g) == <<1, g>>
EngineOf(w, g) == <<w, g>>

RunIds == 1..Len(rRuns)
InFlightRuns == { i \in RunIds : rRuns[i].state \in {"acquiring", "running", "ended"} }
\* (NoBusyWorkers is the fault "the runner takes every worker for free".)
NoBusyWorkers == {}
BusyWorkers == { rRuns[i].worker : i \in InFlightRuns }
Pending == { i \in RunIds : rRuns[i].state = "pending" }

RunnerIdle ==
  /\ rTargets = <<>>
  /\ rNextTest = 1
  /\ rRuns = <<>>
  /\ rNextCtx = 0
  /\ rOpen = {}
  /\ rPageVar = [w \in RunnerWorkers |-> 0]
  /\ rReport = EmptyBag
  /\ rCancelled = FALSE
  /\ rPhase = "idle"
  /\ rTests = <<>>
  /\ rEngine = [w \in RunnerWorkers |-> NoTarget]
  /\ rIpVar = [w \in RunnerWorkers |-> 0]

\* The runner is started with a selection of the declared projects and of
\* the tests: one test for any selection of projects (-g), or the file for
\* one project ("npx playwright test 04-speed-and-browsers.spec.js
\* --project=chromium").
RunnerStart ==
  /\ \E S \in SUBSET { DeclaredTargets[i] : i \in 1..Len(DeclaredTargets) } :
       rTargets = Selected(DeclaredTargets, S)
  /\ rTests \in TestSelections
  /\ Len(rTests) = 1 \/ Len(rTargets) <= 1
  /\ rEngine = [w \in RunnerWorkers |-> NoTarget]
  /\ rIpVar = [w \in RunnerWorkers |-> 0]
  /\ rNextTest = 1
  /\ rRuns = <<>>
  /\ rNextCtx = 0
  /\ rOpen = {}
  /\ rPageVar = [w \in RunnerWorkers |-> 0]
  /\ rReport = EmptyBag
  /\ rCancelled = FALSE
  /\ rPhase = "expanding"

\* TestRunner, step 1: the next test is expanded and its runs are queued;
\* a test without runs is reported once as skipped.
RExpand ==
  /\ rPhase = "expanding"
  /\ rNextTest <= Len(rTests)
  /\ rRuns' = rRuns \o Expand(rTargets, rTests[rNextTest])
  /\ rReport' = IF Expand(rTargets, rTests[rNextTest]) = <<>>
                  THEN rReport (+) OneResult(rTests[rNextTest], NoTarget, "skipped")
                  ELSE rReport
  /\ rNextTest' = rNextTest + 1
  /\ rPhase' = IF rNextTest = Len(rTests) THEN "running" ELSE rPhase
  /\ UNCHANGED <<rTargets, rNextCtx, rOpen, rPageVar, rCancelled, rTests, rEngine,
                 rIpVar>>
  /\ RunnerOnly

\* The first free worker takes the first run of the queue: pending ->
\* acquiring.  (RTakeAndRun is the fault "the body is started before a
\* context has been acquired".)
RTakeAndRun(i, w) ==
  /\ rPhase = "running"
  /\ ~rCancelled
  /\ i \in Pending
  /\ \A j \in Pending : i <= j
  /\ w \in RunnerWorkers \ BusyWorkers
  /\ \A v \in RunnerWorkers \ BusyWorkers : w <= v
  /\ rRuns' = [rRuns EXCEPT ![i].state = "running", ![i].worker = w]
  /\ UNCHANGED <<rTargets, rNextTest, rNextCtx, rOpen, rPageVar, rReport,
                 rCancelled, rPhase, rTests, rEngine, rIpVar>>
  /\ RunnerOnly
RTake(i, w) ==
  /\ rPhase = "running"
  /\ ~rCancelled
  /\ i \in Pending
  /\ \A j \in Pending : i <= j
  /\ w \in RunnerWorkers \ BusyWorkers
  /\ \A v \in RunnerWorkers \ BusyWorkers : w <= v
  /\ rRuns' = [rRuns EXCEPT ![i].state = "acquiring", ![i].worker = w]
  /\ UNCHANGED <<rTargets, rNextTest, rNextCtx, rOpen, rPageVar, rReport,
                 rCancelled, rPhase, rTests, rEngine, rIpVar>>
  /\ RunnerOnly

\* acquire resolves with a fresh context and its page, in the browser the
\* worker keeps running for the project or in one it launches now, and the
\* beforeEach hook stores the page in the describe-level variables:
\* acquiring -> running.  Or the engine does not start: the run ends as
\* failed, with nothing left open.
RAcquire(i) ==
  /\ i \in RunIds
  /\ rRuns[i].state = "acquiring"
  /\ \/ /\ rNextCtx' = FreshContext(rNextCtx)
        /\ rOpen' = rOpen \cup {FreshContext(rNextCtx)}
        /\ rRuns' = [rRuns EXCEPT ![i].state = "running",
                                  ![i].ctx = FreshContext(rNextCtx),
                                  ![i].engine = EngineOf(rRuns[i].worker,
                                                         rRuns[i].target)]
        /\ rEngine' = [rEngine EXCEPT ![rRuns[i].worker] = rRuns[i].target]
        /\ rPageVar' = BeforeEach(rPageVar, rRuns[i].worker, FreshContext(rNextCtx))
        /\ rIpVar' = BeforeEach(rIpVar, rRuns[i].worker, FreshContext(rNextCtx))
        /\ UNCHANGED rReport
     \/ /\ rRuns' = [rRuns EXCEPT ![i].state = "ended", ![i].outcome = "failed"]
        /\ rReport' = rReport (+) OneResult(rRuns[i].test, rRuns[i].target, "failed")
        /\ UNCHANGED <<rNextCtx, rOpen, rPageVar, rEngine, rIpVar>>
  /\ UNCHANGED <<rTargets, rNextTest, rCancelled, rPhase, rTests>>
  /\ RunnerOnly

\* The body runs against the page of the describe-level variable and ends:
\* it returns, throws, or exceeds the timeout of the runner.  The result is
\* reported: running -> passed | failed | timedOut.
RBody(i) ==
  /\ i \in RunIds
  /\ rRuns[i].state = "running"
  /\ \E o \in Finished :
       /\ rRuns' = [rRuns EXCEPT ![i].state = "ended", ![i].outcome = o,
                                 ![i].seen = rPageVar[Slot(rRuns[i].worker)]]
       /\ rReport' = rReport (+) OneResult(rRuns[i].test, rRuns[i].target, o)
  /\ UNCHANGED <<rTargets, rNextTest, rNextCtx, rOpen, rPageVar, rCancelled, rPhase,
                 rTests, rEngine, rIpVar>>
  /\ RunnerOnly

\* release: the context of the run is closed and the worker is free again;
\* its browser keeps running for the next run.
RRelease(i) ==
  /\ i \in RunIds
  /\ rRuns[i].state = "ended"
  /\ rRuns' = [rRuns EXCEPT ![i].state = "released", ![i].ctx = 0,
                            ![i].seen = 0, ![i].worker = 0,
                            ![i].engine = NoEngine]
  /\ rOpen' = rOpen \ {rRuns[i].ctx}
  /\ UNCHANGED <<rTargets, rNextTest, rNextCtx, rPageVar, rReport, rCancelled, rPhase,
                 rTests, rEngine, rIpVar>>
  /\ RunnerOnly

\* The suite is cancelled: no further run is taken from the queue.
RCancel ==
  /\ rPhase = "running"
  /\ ~rCancelled
  /\ rCancelled' = TRUE
  /\ UNCHANGED <<rTargets, rNextTest, rRuns, rNextCtx, rOpen, rPageVar, rReport, rPhase,
                 rTests, rEngine, rIpVar>>
  /\ RunnerOnly

\* The report is finalized when no run is in flight and either none is
\* pending or the suite was cancelled.
RFinalize ==
  /\ rPhase = "running"
  /\ InFlightRuns = {}
  /\ Pending = {} \/ rCancelled
  /\ rPhase' = "finalized"
  /\ UNCHANGED <<rTargets, rNextTest, rRuns, rNextCtx, rOpen, rPageVar, rReport,
                 rCancelled, rTests, rEngine, rIpVar>>
  /\ RunnerOnly

RunnerNext ==
  \/ RExpand
  \/ \E i \in RunIds : \E w \in RunnerWorkers : RTake(i, w)
  \/ \E i \in RunIds : RAcquire(i)
  \/ \E i \in RunIds : RBody(i)
  \/ \E i \in RunIds : RRelease(i)
  \/ RCancel
  \/ RFinalize

----------------------------------------------------------------------------
(* Specifications                                                          *)

SetupInit ==
  SetupStart /\ StoreIdle /\ AuthIdle /\ PageIdle /\ RunnerIdle /\ LoginIdle
SetupSpec == SetupInit /\ [][SetupNext]_vars

\* An awaited library call settles, and the event loop then resumes the
\* function: every enabled step of an invocation is eventually taken.
SetupFair == SetupSpec /\ WF_vars(SetupStep)

SetupUnused == SetupIdle /\ gDir = FALSE /\ gFile = Absent

StoreInit ==
  StoreStart /\ SetupUnused /\ AuthIdle /\ PageIdle /\ RunnerIdle /\ LoginIdle
StoreSpec == StoreInit /\ [][StoreNext]_vars

AuthInit ==
  AuthStart /\ SetupUnused /\ StoreIdle /\ PageIdle /\ RunnerIdle /\ LoginIdle
AuthSpec == AuthInit /\ [][AuthNext]_vars

PageInit ==
  PageIdle /\ SetupUnused /\ StoreIdle /\ AuthIdle /\ RunnerIdle /\ LoginIdle
PageSpec == PageInit /\ [][PageNext]_vars

\* A hung page: nothing obliges the page to answer.  The worker runs the
\* body as far as it can, and the timers of the waits and of the runner
\* expire.
PageFair ==
  /\ PageSpec
  /\ WF_vars(PBodyStep)
  /\ WF_vars(PWaitTimesOut)
  /\ WF_vars(PTestTimeout)
  /\ WF_vars(PTeardown)

RunnerInit ==
  RunnerStart /\ SetupUnused /\ StoreIdle /\ AuthIdle /\ PageIdle /\ LoginIdle
RunnerSpec == RunnerInit /\ [][RunnerNext]_vars

LoginInit ==
  LoginStart /\ SetupUnused /\ StoreIdle /\ AuthIdle /\ PageIdle /\ RunnerIdle
LoginSpec == LoginInit /\ [][LoginNext]_vars

----------------------------------------------------------------------------
(* Claims about globalSetup                                                *)

\* The try block of the current invocation is executing (lines 52-72).
InTryBody ==
  gpc \in {"goto", "fillUser", "fillPass", "click", "waitSel", "storageState",
           "ssOpen", "ssWrite", "catch", "finally"}

\* C1 (as stated): whenever an invocation of globalSetup has ended with an
\* error reaching its caller, no browser that globalSetup launched is still
\* running.
C1_NoBrowserLeftOnFailure == gpc = "threw" => gBrowsers = 0

Ended == gpc \in {"returned", "threw"}

\* C15: when a wait of globalSetup exceeds its timeout, the invocation ends
\* with that error reaching the caller, and browser.close() has been called
\* exactly once: not zero times, not twice.
C15_TimeoutReleasesExactlyOnce ==
  /\ [](gErr = "TimeoutError" =>
          /\ gpc # "returned"
          /\ gCloseCalls <= 1
          /\ Ended => (gThrown = "TimeoutError" /\ gCloseCalls = 1))
  /\ ((gpc = "catch" /\ gErr = "TimeoutError") ~>
          (gpc = "threw" /\ gCloseCalls = 1))

\* C15 witness: the timeout has been caught and the single close() is still
\* to come.
C15_Witness ==
  /\ gpc = "finally"
  /\ gErr = "TimeoutError"
  /\ gCloseCalls = 0
  /\ gBrowsers = 1

StateErrors == {"CaptureError", "PersistError"}

\* C17: an error raised while storageState captures or writes the session
\* state reaches the caller of globalSetup as that same error, after the
\* browser has been closed; an invocation never returns normally after an
\* error was caught, and one that entered the try block returns normally
\* only with the captured state completely written.
C17_StateErrorIsRethrown ==
  /\ gpc = "returned" => (gErr = NoError /\ gThrown = NoError)
  /\ (gpc = "returned" /\ gTry) => gFile = FileOf(Serialize(gSnap))
  /\ (Ended /\ gErr \in StateErrors) =>
        /\ gpc = "threw"
        /\ gThrown = gErr
        /\ gCloseCalls = 1

\* C17 witness: the write failed after the file had been opened; the error
\* reached the caller and the file was left empty.
C17_Witness ==
  /\ gpc = "threw"
  /\ gThrown = "PersistError"
  /\ gFile = FileOf(<<>>)
  /\ gLogins = 1
  /\ gBrowsers = 0

C19_CaptureOnlyFromLiveContext ==
  /\ [](gpc \in {"storageState", "ssOpen", "ssWrite"} => ContextLive)
  /\ [][(gpc = "storageState" /\ ~ContextLive) =>
           (gpc' = "catch" /\ gErr' = "CaptureError" /\ gSnap' = gSnap)]_vars
  /\ [][gCloseCalls' > gCloseCalls => gpc \notin {"storageState", "ssOpen", "ssWrite"}]_vars

\* C19 witness: the state has been captured and written, and the browser is
\* about to be closed.
C19_Witness ==
  /\ gpc = "finally"
  /\ gErr = NoError
  /\ ContextLive
  /\ Len(gSnap) = 2
  /\ gFile = FileOf(Serialize(gSnap))

\* C26 (as stated): whenever an invocation of globalSetup has failed, no
\* auth file exists, so that the next invocation cannot take the "already
\* exists" shortcut of lines 42-45.
C26_NoFileAfterFailedSetup == gpc = "threw" => ~gFile.exists

----------------------------------------------------------------------------
(* Claims about saving and loading session state                           *)

\* C5 (as stated): a load of a state file that was never written yields a
\* NotFound value and the test body goes on; it does not fail.
C5_MissingFileIsNotFound ==
  (sLast = "load" /\ ~sFile.exists) =>
      (sLoaded.kind = "NotFound" /\ sOutcome # "failed")

C28_SaveOnlyAfterLogin ==
  /\ [](lDone = SubSeq(LoginSteps, 1, Len(lDone)))
  /\ [](lPc \in {"ssOpen", "ssWrite", "returned"} => lDone = LoginSteps)
  /\ [][lFile' # lFile =>
          (lDone = LoginSteps /\ lPc \in {"ssOpen", "ssWrite"})]_vars
  /\ [][(lDone # LoginSteps /\ lPc' = "threw") => lFile' = lFile]_vars

\* C28 witness: the login completed and the call returned with the
\* one-cookie state of the session as the text of the file.
C28_Witness ==
  /\ lPc = "returned"
  /\ lDone = LoginSteps
  /\ Len(lJar) = 1
  /\ lFile = FileOf(Serialize(lJar))

----------------------------------------------------------------------------
(* Claims about the serial authentication group                            *)

GroupOver(p) == aPc[p] = "done"
Executed == {"passed", "failed", "timedOut"}

\* C3 (as stated): whatever a test reads from the auth file while other
\* projects save to it is a complete value: the whole text of some saved
\* state, never a partly written one.
C3_ReadersSeeWholeValues ==
  aLastRead.by # 0 =>
      \E s \in States : aLastRead.file = FileOf(Serialize(s))

\* C4 (as stated): a failing first test of the authentication group does
\* not stop the remaining tests of that group from running.
C4_FailingFirstTestDoesNotStopGroup ==
  \A p \in Projects :
     (GroupOver(p) /\ aOut[p][1] \in Failures) =>
         \A k \in 2..4 : aOut[p][k] \in Executed

\* C4 (amended): a failure is recorded as failed or timedOut and stays in
\* its own group: a test is skipped only because an earlier test of the same
\* group in the same project failed, never because a run of another project
\* failed; and within the serial group, once a test has failed, every later
\* test of that group is skipped.
C4_FailureStaysInItsOwnGroup ==
  \A p \in Projects : \A k \in Tests :
     /\ aOut[p][k] = "skipped" =>
           \E j \in 1..(k - 1) : aOut[p][j] \in Failures
     /\ aOut[p][k] \in Failures =>
           \A j \in (k + 1)..4 : aOut[p][j] = "skipped"

\* C4 witness: the first test of one project failed and its group was
\* skipped, while another project ran all four tests.
C4_Witness ==
  \E p, q \in Projects :
     /\ p # q
     /\ GroupOver(p)
     /\ aOut[p][1] \in Failures
     /\ aOut[p][2] = "skipped"
     /\ GroupOver(q)
     /\ aOut[q][4] = "passed"

C20_SeededBeforeFirstNavigation ==
  \A p \in Projects :
     aSeed[p].navigated =>
        /\ aSeed[p].gotCookies = aSeed[p].cookies
        /\ aSeed[p].gotStorage = aSeed[p].storage

\* C27 (as stated): whenever a test 02, 03 or 04 of a project reads the
\* auth file, the file was last written by test 01 of that same project.
C27_ReadsOwnSavedState ==
  [][\A p \in Projects :
       (aPc[p] \in {"t2", "t3_read", "t4"} /\ aPc'[p] # aPc[p]) =>
           aWriter = p]_vars

----------------------------------------------------------------------------
(* Claims about the page-event wait and about overlapping operations       *)

ClickIssued ==
  pOps["clickHere"] # "idle" \/ pPopupDue \/ Len(pOpened) = 2

\* C9: in clickNewWindowLink and in the multi-tab test the wait for the
\* 'page' event is subscribed before the click is issued (when only the
\* fixture page exists); however the click and the page creation interleave,
\* the wait receives the new page unless it had already timed out, and the
\* page handed to the body is the first page opened after the subscription.
C9_SubscribedBeforeClick ==
  pTest \in {"clickNewWindowLink", "newTab"} =>
      /\ ClickIssued => pSubAt["waitMain"] = 1
      /\ Len(pOpened) = 2 =>
            (pSubVal["waitMain"] = 2 \/ pOps["waitMain"] = "err")
      /\ pNewPage # 0 => pNewPage = pOpened[pSubAt["waitMain"] + 1]

\* C9 witness: clickNewWindowLink returned the page that the click opened.
C9_Witness ==
  /\ pTest = "clickNewWindowLink"
  /\ pPhase = "ended"
  /\ pOut = "passed"
  /\ pNewPage = 2
  /\ pOpened = <<1, 2>>

\* C10 (as stated): at no time are two operations in flight against the
\* page or context of one run.
C10_OneOperationAtATime == Cardinality(InFlight) <= 1

\* The operations of a Promise.all array of the running body.
AllArrays ==
  { Prog(pTest, pCount)[i].ops : i \in
      { j \in 1..Len(Prog(pTest, pCount)) : Prog(pTest, pCount)[j].k = "all" } }

\* C10 (amended): a body awaits each operation before it issues the next,
\* with two exceptions: a wait promise (waitForEvent('page'), waitForURL)
\* stays pending while later operations are issued, and the elements of one
\* Promise.all array are in flight together.  So the operations in flight
\* that are not pending waits are a single awaited operation or belong to
\* one Promise.all array of the body.
C10_OverlapOnlyInPromiseAll ==
  pTest # "none" =>
      \/ Cardinality(InFlight \ Waits) <= 1
      \/ \E A \in AllArrays : (InFlight \ Waits) \subseteq A

\* C10 witness: the textContent() reads of getProductNames are in flight
\* together, as many as the page lists products.
C10_Witness ==
  /\ pTest = "getProductNames"
  /\ Running
  /\ pCount = MaxProducts
  /\ InFlight = TextOps(MaxProducts)
  /\ Cardinality(InFlight) >= 2

----------------------------------------------------------------------------
(* Claims about closing pages                                              *)

\* C16: no close() is ever issued on a page that is already closed: the
\* finally block of the multi-page test asks isClosed() first; and a
\* close() of an already closed page would resolve and leave it closed.
C16_CleanupNeverClosesTwice ==
  /\ [](~pLate)
  /\ [](pTest = "multiPages" /\ pPhase = "ended" /\ pIp = 7 => pPage2 = "closed")
  /\ [][(pTest # "none" /\ pTest' = pTest /\ pPage2 = "closed"
           /\ pOps["close2"] = "flying") =>
          (pOps'["close2"] # "err" /\ pPage2' = "closed")]_vars

\* C16 witness: the try block of the multi-page test closed page2, and the
\* finally block found it closed and issued no second close().
C16_Witness ==
  /\ pTest = "multiPages"
  /\ pPhase = "ended"
  /\ pOut = "passed"
  /\ pIp = 7
  /\ pPage2 = "closed"
  /\ pOps["close2"] = "idle"
  /\ ~pLate

\* C21: with a page that may never answer, every body that runs eventually
\* ends with an outcome, every pending wait (selector, page event, URL)
\* eventually stops pending, the fixtures of every test are eventually
\* torn down, and from some point on no test is running any more.
C21_HungPageCannotStall ==
  /\ Running ~> (pPhase = "ended" /\ pOut \in Finished)
  /\ \A w \in Waits : (pOps[w] = "flying") ~> (pOps[w] # "flying")
  /\ (pTest # "none") ~> (pTest = "none")
  /\ <>[](pTest = "none")

\* C21 witness: the body was waiting for a selector on a page that never
\* showed it, and the run has ended as timed out with the wait pending.
C21_Witness ==
  /\ pTest = "waitForElement"
  /\ pPhase = "ended"
  /\ pOut = "timedOut"
  /\ pOps["waitSel"] = "flying"

\* C25: when the body of the multi-page test has returned or thrown after
\* page2 was created, page2 is closed, whether the try block ran to its end
\* or an expect or a navigation in it threw.  (A run that the runner timed
\* out, and a close() that itself rejected in the finally block, are not
\* among these paths.)
C25_SecondPageClosedOnExit ==
  (/\ pTest = "multiPages"
   /\ pPhase = "ended"
   /\ pOut \in {"passed", "failed"}
   /\ pPage2 # "none"
   /\ pOps["close2"] # "err") => pPage2 = "closed"

\* C25 witness: a statement of the try block threw while page2 was open;
\* the finally block closed it and the body ended as failed.
C25_Witness ==
  /\ pTest = "multiPages"
  /\ pPhase = "ended"
  /\ pOut = "failed"
  /\ pErr
  /\ pUrl = "home"
  /\ pOps["close2"] = "idle"
  /\ pPage2 = "closed"

\* C29 (as stated): when the body of the multi-tab test or of the
\* navigation test has finished, on whatever path, none of the 'page'-event
\* or URL waits it created is still pending.
C29_NoWaitPendingAtBodyEnd ==
  (pTest \in {"newTab", "waitNav"} /\ pPhase = "ended") =>
      \A w \in PageWaits \cup UrlWaits : pOps[w] # "flying"

\* The statement of the multi-tab test that follows "await newPage.close()"
\* (line 391: the expect on the URL of the original page).
AfterCloseOfNewTab == 13

\* C22: in the multi-tab test the close() of the new tab closes that tab
\* and nothing else: the step that closes adds only the new page to the
\* closed pages and leaves the URL of the original page alone, and once
\* close() has resolved the original page is open and on the 'windows' URL.
C22_CloseAffectsOnlyNewTab ==
  /\ []((pTest = "newTab" /\ pIp >= AfterCloseOfNewTab) =>
          /\ pNewPage = 2
          /\ pClosed = {pNewPage}
          /\ 1 \notin pClosed
          /\ pUrl = "windows")
  /\ [][(pTest = "newTab" /\ pTest' = pTest /\ pClosed' # pClosed) =>
          /\ pClosed' = pClosed \cup {pNewPage}
          /\ pUrl' = pUrl
          /\ pOpened' = pOpened]_vars

\* C22 witness: the body passed its last expect, on the URL of the original
\* page, after the new tab had been closed.
C22_Witness ==
  /\ pTest = "newTab"
  /\ pPhase = "ended"
  /\ pOut = "passed"
  /\ pClosed = {2}
  /\ pOpened = <<1, 2>>
  /\ pUrl = "windows"

----------------------------------------------------------------------------
(* Claims about the runner                                                 *)

Holding == { i \in RunIds : rRuns[i].ctx # 0 }

\* C11: no two runs that execute at the same time hold the same context,
\* every held context is open, and the page a body works on belongs to the
\* context its own run acquired.
C11_ContextsNeverShared ==
  /\ \A i, j \in Holding : i # j => rRuns[i].ctx # rRuns[j].ctx
  /\ \A i \in Holding : rRuns[i].ctx \in rOpen
  /\ \A i \in RunIds :
       (rRuns[i].state = "ended" /\ rRuns[i].ctx # 0) =>
           rRuns[i].seen = rRuns[i].ctx

\* C11 witness: one run is still running in its context while the body of
\* another run, in another worker, has ended having used its own.
C11_Witness ==
  \E i, j \in RunIds :
     /\ rRuns[i].state = "running"
     /\ rRuns[j].state = "ended"
     /\ rRuns[j].ctx # 0
     /\ rRuns[j].seen = rRuns[j].ctx
     /\ rRuns[i].ctx # rRuns[j].ctx
     /\ rRuns[i].worker # rRuns[j].worker

\* The number of results the report holds for test t on target g.
ResultsFor(t, g) ==
  CopiesIn(Result(t, g, "passed"), rReport)
    + CopiesIn(Result(t, g, "failed"), rReport)
    + CopiesIn(Result(t, g, "timedOut"), rReport)
    + CopiesIn(Result(t, g, "skipped"), rReport)

TargetSet == { rTargets[i] : i \in 1..Len(rTargets) }
TestSet == { rTests[i] : i \in 1..Len(rTests) }

\* C12: the finished report of a suite that was not cancelled holds exactly
\* one result for every (test, target) pair, and exactly one skipped result
\* for a test without targets; at any time, cancelled or not, every run
\* that has an outcome has exactly one result, which is its outcome, and no
\* result is ever removed from the report.
C12_OneResultPerRun ==
  /\ []((rPhase = "finalized" /\ ~rCancelled) =>
          \A t \in TestSet :
             /\ \A g \in TargetSet : ResultsFor(t, g) = 1
             /\ ResultsFor(t, NoTarget) = (IF rTargets = <<>> THEN 1 ELSE 0)
             /\ rTargets = <<>> =>
                  CopiesIn(Result(t, NoTarget, "skipped"), rReport) = 1)
  /\ [](\A i \in RunIds :
          rRuns[i].outcome # "none" =>
             /\ ResultsFor(rRuns[i].test, rRuns[i].target) = 1
             /\ CopiesIn(Result(rRuns[i].test, rRuns[i].target,
                                rRuns[i].outcome), rReport) = 1)
  /\ [][rReport \sqsubseteq rReport']_vars

\* C12 witness: the suite was cancelled after one run had completed and
\* before the next one was taken; the finished report holds that result.
C12_Witness ==
  /\ rPhase = "finalized"
  /\ rCancelled
  /\ Len(rRuns) = 2
  /\ rRuns[1].state = "released"
  /\ rRuns[1].outcome = "passed"
  /\ rRuns[2].state = "pending"
  /\ ResultsFor(rRuns[1].test, rRuns[1].target) = 1
  /\ ResultsFor(rRuns[2].test, rRuns[2].target) = 0

\* The position of a project in the declaration.
DeclIndex(g) == CHOOSE i \in 1..Len(ProjectNames) : ProjectNames[i] = g

\* C13: for a non-empty selection of targets, the expansion of a test
\* yields one run per target, the i-th run for the i-th target, in the
\* order of declaration; the step that expands touches no context, no
\* worker and no result, and leaves the runs queued before untouched.
C13_ExpandOnePerTargetInOrder ==
  /\ []((rNextTest > 1 /\ rTargets # <<>>) =>
          /\ Len(rRuns) = Len(rTargets) * (rNextTest - 1)
          /\ \A i \in RunIds :
               /\ rRuns[i].target = rTargets[((i - 1) % Len(rTargets)) + 1]
               /\ rRuns[i].target \in TargetSet
               /\ rRuns[i].test = rTests[((i - 1) \div Len(rTargets)) + 1]
          /\ \A i, j \in RunIds :
               (i < j /\ rRuns[i].test = rRuns[j].test) =>
                   DeclIndex(rRuns[i].target) < DeclIndex(rRuns[j].target))
  /\ [][(rNextTest' # rNextTest /\ rTargets # <<>>) =>
          /\ rTargets' = rTargets
          /\ rNextCtx' = rNextCtx
          /\ rOpen' = rOpen
          /\ rPageVar' = rPageVar
          /\ rReport' = rReport
          /\ rCancelled' = rCancelled
          /\ SubSeq(rRuns', 1, Len(rRuns)) = rRuns]_vars

\* C13 witness: two targets were selected and the test has been expanded
\* into two pending runs, chromium first.
C13_Witness ==
  /\ rNextTest = 2
  /\ Len(rTargets) = 2
  /\ Len(rRuns) = 2
  /\ rRuns[1] = NewRun(RunnerTests[1], "chromium")
  /\ rRuns[2] = NewRun(RunnerTests[1], "firefox")

\* The steps a run may take.
RunSteps ==
  { <<"pending", "acquiring">>, <<"acquiring", "running">>,
    <<"acquiring", "ended">>, <<"running", "ended">>, <<"ended", "released">> }

\* C14: a run moves only pending -> acquiring -> running -> ended (passed,
\* failed or timedOut) -> released, a failed acquisition ending the run as
\* failed at once; a running run holds the context it acquired; a run gets
\* its outcome when it ends, one of passed, failed and timedOut, and the
\* outcome never changes afterwards.
C14_RunStateMachine ==
  /\ [](\A i \in RunIds :
          /\ rRuns[i].state = "running" => rRuns[i].ctx \in rOpen
          /\ rRuns[i].state \in {"ended", "released"} <=>
                rRuns[i].outcome \in Finished
          /\ rRuns[i].outcome \in Finished \cup {"none"})
  /\ [][\A i \in RunIds :
          /\ rRuns'[i].state # rRuns[i].state =>
                <<rRuns[i].state, rRuns'[i].state>> \in RunSteps
          /\ rRuns[i].outcome # "none" => rRuns'[i].outcome = rRuns[i].outcome
          /\ rRuns'[i].outcome # rRuns[i].outcome => rRuns'[i].state = "ended"
       ]_vars

\* C14 witness: a run that timed out has been released, after another run
\* had passed.
C14_Witness ==
  \E i, j \in RunIds :
     /\ rRuns[i].state = "released"
     /\ rRuns[i].outcome = "timedOut"
     /\ rRuns[j].state = "released"
     /\ rRuns[j].outcome = "passed"

\* C23: at every moment the runs in flight are at most as many as the
\* workers, however many targets the test is fanned out to: every run in
\* flight occupies a worker of its own.
C23_InFlightWithinWorkerLimit ==
  /\ Cardinality(InFlightRuns) <= DefaultWorkers
  /\ \A i \in InFlightRuns : rRuns[i].worker \in RunnerWorkers
  /\ \A i, j \in InFlightRuns : i # j => rRuns[i].worker # rRuns[j].worker

\* C23 witness: a test was fanned out to more targets than there are
\* workers; every worker has a run in flight and a run is still queued.
C23_Witness ==
  /\ Len(rTargets) > DefaultWorkers
  /\ Cardinality(InFlightRuns) = DefaultWorkers
  /\ Pending # {}

\* The runs whose context a browser process is backing.
Backed == { i \in RunIds : rRuns[i].engine # NoEngine }

\* C24: a browser process never backs two acquisitions that are active at
\* the same time, every run that holds a context is backed by a browser
\* process, and an acquisition is given a process that backs no other
\* acquisition at that moment; reuse is by acquisitions that follow one
\* another.
C24_EngineNeverBacksConcurrent ==
  /\ [](\A i, j \in Backed : i # j => rRuns[i].engine # rRuns[j].engine)
  /\ [](\A i \in RunIds : rRuns[i].ctx # 0 => i \in Backed)
  /\ [][\A i \in RunIds :
          (rRuns[i].engine = NoEngine /\ rRuns'[i].engine # NoEngine) =>
             \A j \in Backed : rRuns[j].engine # rRuns'[i].engine]_vars

\* C24 witness: the second test of the file runs for the same project in
\* the worker, and so in the browser, that ran the first test, which has
\* passed and released its context.
C24_Witness ==
  /\ Len(rRuns) = 2
  /\ rRuns[1].state = "released"
  /\ rRuns[1].outcome = "passed"
  /\ rRuns[2].state = "running"
  /\ rRuns[2].target = rRuns[1].target
  /\ rRuns[2].engine = EngineOf(1, rRuns[1].target)
  /\ rEngine[1] = rRuns[1].target
  /\ Backed = {2}

\* The contexts that were handed out and are closed: those of the tests
\* that ran before.
ClosedContexts == (1..rNextCtx) \ rOpen

\* C30: while a test body runs, the variables page and internetPage of its
\* worker refer to the page of that test, which is open; the page a body
\* drives is the one of its own test, never the page of a test that ran
\* before or of another run.
C30_SharedVarsPointToCurrentPage ==
  /\ [](\A i \in RunIds :
          rRuns[i].state = "running" =>
             /\ rPageVar[Slot(rRuns[i].worker)] = rRuns[i].ctx
             /\ rIpVar[Slot(rRuns[i].worker)] = rRuns[i].ctx
             /\ rRuns[i].ctx \notin ClosedContexts)
  /\ [][\A i \in RunIds :
          (rRuns[i].state = "running" /\ rRuns'[i].state = "ended") =>
             /\ rRuns'[i].seen = rRuns[i].ctx
             /\ rRuns'[i].seen \notin ClosedContexts
             /\ \A j \in RunIds \ {i} : rRuns[j].ctx # rRuns'[i].seen]_vars

\* C30 witness: the body of a test has ended in the worker that ran another
\* test before; both variables refer to the page of the later test and the
\* body drove that page.
C30_Witness ==
  /\ Len(rRuns) = 2
  /\ rRuns[1].state = "released"
  /\ rRuns[1].outcome = "passed"
  /\ rRuns[2].state = "ended"
  /\ rRuns[2].worker = 1
  /\ rRuns[2].ctx = 2
  /\ rRuns[2].seen = 2
  /\ rPageVar[Slot(1)] = 2
  /\ rIpVar[Slot(1)] = 2
  /\ ClosedContexts = {1}

====
